---- MODULE Spec2Model ----
(***************************************************************************)
(* SolGSN relay-fee ledger (program-rust).  One ledger account holds the   *)
(* Borsh encoding of a GsnInfo record; every instruction handler of        *)
(* Processor deserializes it, mutates the copy in memory and serializes    *)
(* it back into the account's data buffer.                                 *)
(*                                                                         *)
(* Integers of the program are u64.  The amounts used below stay far       *)
(* under 2^31, so no sum or product formed here reaches the width of the   *)
(* program's integers; u64 overflow is outside the range explored.         *)
(***************************************************************************)
EXTENDS Integers, Sequences, FiniteSets, TLC

VARIABLES data, prev, last, relayed, funded, claimed

vars == <<data, prev, last, relayed, funded, claimed>>

(***************************************************************************)
(* Inputs.  Account keys and token mints are given by their base58 text    *)
(* (Pubkey::to_string), which is what the maps of GsnInfo are keyed by:    *)
(* the keys [1;32], [2;32] and the mints [3;32], [4;32].                   *)
(***************************************************************************)
A1 == "4vJ9JU1bJJE96FWSJKvHsmmFADCg4gpZQff4P3bkLKi"
A2 == "8qbHbw2BbbTHBW1sbeqakYXVKRQM8Ne7pLK7m6CVfeR"
T1 == "CktRuQ2mttgRGkXJtyksdKHjUdc2C4TgDzyB98oEzy8"
T2 == "GgBaCs3NCBuZN12kCJgAW63ydqohFkHEdfdEXBPzLHq"

\* Key of the ledger account itself ([5;32]).
LedgerKey == "LbUiWL3xVV8hTFYBVdbTNrpDo41NKS6o3LHHuDzjfcY"

Address == {A1, A2}
Mint == {T1, T2}

\* Length in bytes of the ledger account's data buffer.
DataLen == 440

\* Largest nonce a SubmitTransaction instruction of the model carries.
MaxNonce == 2

TopupAmounts == {0, 50000}
TxAmounts == {100000}
NonceInputs == 0..MaxNonce
Receivers == {A2}

\* UpdateFeeParams arguments <<fee_mode_type, fee_value>>.
FeeParams == {<<0, 100000>>, <<1, 100>>, <<1, 10001>>, <<2, 100>>}

\* Outcomes of the external transfer (solana_program::program::invoke); the
\* outcome is drawn only for an instruction that gets as far as invoking it.
InvokeOutcomes == {"Ok", "TransferFailed"}

(***************************************************************************)
(* BTreeMap and Option helpers.                                            *)
(***************************************************************************)
EmptyMap == [k \in {} |-> 0]

\* BTreeMap::insert: sets the value whether or not the key is present.
MapInsert(m, k, v) == [x \in (DOMAIN m) \cup {k} |-> IF x = k THEN v ELSE m[x]]

\* BTreeMap::entry(k).or_insert(v): inserts v only when k is vacant.
EntryOrInsert(m, k, v) == IF k \in DOMAIN m THEN m ELSE MapInsert(m, k, v)

\* BTreeMap::remove.
MapRemove(m, k) == [x \in (DOMAIN m) \ {k} |-> m[x]]

\* map.get(k).copied().unwrap_or(d)
GetOr(m, k, d) == IF k \in DOMAIN m THEN m[k] ELSE d

\* Option<GovernanceConfig>: <<>> is None, <<g>> is Some(g).
None == <<>>
Some(g) == <<g>>
IsSome(o) == Len(o) = 1

Fixed(v) == [tag |-> "Fixed", value |-> v]
Percent(v) == [tag |-> "Percent", value |-> v]

(***************************************************************************)
(* state.rs: GsnInfo                                                       *)
(***************************************************************************)
\* #[derive(Default)]: what an all-zero data buffer decodes to.
GsnDefault ==
    [is_initialized |-> FALSE,
     consumer |-> EmptyMap,
     executor |-> EmptyMap,
     governance |-> None,
     consumer_nonces |-> EmptyMap,
     transaction_executor |-> EmptyMap]

new ==
    [is_initialized |-> TRUE,
     consumer |-> EmptyMap,
     executor |-> EmptyMap,
     governance |-> None,
     consumer_nonces |-> EmptyMap,
     transaction_executor |-> EmptyMap]

add_consumer(gsn, address, amount) ==
    [gsn EXCEPT !.consumer = MapInsert(@, address, amount)]

add_executor(gsn, address, amount) ==
    [gsn EXCEPT !.executor = MapInsert(@, address, amount)]

DefaultFee == 50000
FallbackFee == 50000
BasisPointsDenominator == 10000

\* A governance seeded with a percent default and no check of the amount.
initialize_governance_percent(gsn, authority) ==
    [gsn EXCEPT !.governance =
        Some([authority |-> authority,
              fee_mode |-> Percent(DefaultFee),
              allowed_tokens |-> EmptyMap])]

initialize_governance(gsn, authority) ==
    [gsn EXCEPT !.governance =
        Some([authority |-> authority,
              fee_mode |-> Fixed(DefaultFee),
              allowed_tokens |-> EmptyMap])]

\* A percent fee rounded up instead of down.
calculate_fee_ceil(gsn, transaction_amount) ==
    IF IsSome(gsn.governance)
    THEN LET gov == gsn.governance[1] IN
         IF gov.fee_mode.tag = "Fixed"
         THEN gov.fee_mode.value
         ELSE (transaction_amount * gov.fee_mode.value + (BasisPointsDenominator - 1))
                  \div BasisPointsDenominator
    ELSE FallbackFee

calculate_fee(gsn, transaction_amount) ==
    IF IsSome(gsn.governance)
    THEN LET gov == gsn.governance[1] IN
         IF gov.fee_mode.tag = "Fixed"
         THEN gov.fee_mode.value
         ELSE (transaction_amount * gov.fee_mode.value) \div BasisPointsDenominator
    ELSE FallbackFee

(***************************************************************************)
(* calculate_fee at the width of its integers.  A u64 is its 8 bytes and a *)
(* u128 its 16 bytes, least significant first (to_le_bytes), so that       *)
(* amounts up to 2^64 - 1 and their products with a u16 are formed digit   *)
(* by digit.                                                               *)
(***************************************************************************)
RECURSIVE to_le_bytes(_, _)
\* The k low bytes of n, least significant first.
to_le_bytes(n, k) ==
    IF k = 0 THEN <<>> ELSE <<n % 256>> \o to_le_bytes(n \div 256, k - 1)

u64(n) == to_le_bytes(n, 8)

\* `x as u128`: zero extension.
as_u128(x) == x \o [i \in 1..(16 - Len(x)) |-> 0]

\* `x as u64`: the low 8 bytes.
as_u64(x) == SubSeq(x, 1, 8)

RECURSIVE MulFrom(_, _, _, _)
MulFrom(x, m, i, carry) ==
    IF i > Len(x) THEN <<>>
    ELSE LET p == x[i] * m + carry
         IN <<p % 256>> \o MulFrom(x, m, i + 1, p \div 256)

\* x * m at the width of x, for m below 2^16; a carry out of the top byte
\* is lost.
wrapping_mul(x, m) == MulFrom(x, m, 1, 0)

RECURSIVE DivFrom(_, _, _, _)
DivFrom(x, d, i, rem) ==
    IF i = 0 THEN <<>>
    ELSE LET cur == rem * 256 + x[i]
         IN DivFrom(x, d, i - 1, cur % d) \o <<cur \div d>>

\* x / d at the width of x, for d below 2^16.
div(x, d) == DivFrom(x, d, Len(x), 0)

\* A percent fee multiplied in u64, without the widening to u128.
PercentFee_u64(transaction_amount, basis_points) ==
    div(wrapping_mul(transaction_amount, basis_points), BasisPointsDenominator)

\* state.rs:87
PercentFee(transaction_amount, basis_points) ==
    as_u64(div(wrapping_mul(as_u128(transaction_amount), basis_points),
               BasisPointsDenominator))

\* calculate_fee on an amount given by its 8 bytes; the fee by its 8 bytes.
calculate_fee_le(gsn, transaction_amount) ==
    IF IsSome(gsn.governance)
    THEN LET gov == gsn.governance[1] IN
         IF gov.fee_mode.tag = "Fixed"
         THEN u64(gov.fee_mode.value)
         ELSE PercentFee(transaction_amount, gov.fee_mode.value)
    ELSE u64(FallbackFee)

\* A lookup that lets an unlisted token through (unwrap_or(true)).
is_token_allowed_unlisted(gsn, token_mint) ==
    IF IsSome(gsn.governance)
    THEN LET gov == gsn.governance[1] IN
         IF DOMAIN gov.allowed_tokens = {}
         THEN TRUE
         ELSE GetOr(gov.allowed_tokens, token_mint, TRUE)
    ELSE TRUE

is_token_allowed(gsn, token_mint) ==
    IF IsSome(gsn.governance)
    THEN LET gov == gsn.governance[1] IN
         IF DOMAIN gov.allowed_tokens = {}
         THEN TRUE
         ELSE GetOr(gov.allowed_tokens, token_mint, FALSE)
    ELSE TRUE

add_allowed_token(gsn, token_mint) ==
    IF IsSome(gsn.governance)
    THEN [gsn EXCEPT !.governance[1].allowed_tokens = MapInsert(@, token_mint, TRUE)]
    ELSE gsn

\* A removal that keeps the entry and marks it false.
remove_allowed_token_markFalse(gsn, token_mint) ==
    IF IsSome(gsn.governance)
    THEN [gsn EXCEPT !.governance[1].allowed_tokens = MapInsert(@, token_mint, FALSE)]
    ELSE gsn

remove_allowed_token(gsn, token_mint) ==
    IF IsSome(gsn.governance)
    THEN [gsn EXCEPT !.governance[1].allowed_tokens = MapRemove(@, token_mint)]
    ELSE gsn

update_fee_params(gsn, fee_mode) ==
    IF IsSome(gsn.governance)
    THEN [gsn EXCEPT !.governance[1].fee_mode = fee_mode]
    ELSE gsn

is_authority(gsn, address) ==
    IF IsSome(gsn.governance)
    THEN gsn.governance[1].authority = address
    ELSE FALSE

get_next_nonce(gsn, consumer) == GetOr(gsn.consumer_nonces, consumer, 0)

\* An increment that stores the current nonce back.
increment_nonce_stale(gsn, consumer) ==
    [gsn EXCEPT !.consumer_nonces =
        MapInsert(@, consumer, get_next_nonce(gsn, consumer))]

increment_nonce(gsn, consumer) ==
    [gsn EXCEPT !.consumer_nonces =
        MapInsert(@, consumer, get_next_nonce(gsn, consumer) + 1)]

\* A used-nonce test that also counts the expected nonce as used.
is_nonce_used_orEqual(gsn, consumer, nonce) == nonce <= get_next_nonce(gsn, consumer)

is_nonce_used(gsn, consumer, nonce) == nonce < get_next_nonce(gsn, consumer)

\* format!("{}:{}", consumer, nonce)
TxKey(consumer, nonce) == consumer \o ":" \o ToString(nonce)

\* An audit entry that names the consumer instead of the executor.
record_transaction_executor_consumer(gsn, consumer, nonce, executor) ==
    [gsn EXCEPT !.transaction_executor =
        MapInsert(@, TxKey(consumer, nonce), consumer)]

record_transaction_executor(gsn, consumer, nonce, executor) ==
    [gsn EXCEPT !.transaction_executor =
        MapInsert(@, TxKey(consumer, nonce), executor)]

\* Option<&String>
get_transaction_executor(gsn, consumer, nonce) ==
    IF TxKey(consumer, nonce) \in DOMAIN gsn.transaction_executor
    THEN Some(gsn.transaction_executor[TxKey(consumer, nonce)])
    ELSE None

(***************************************************************************)
(* Borsh encoding of GsnInfo, by its length in bytes: a bool is 1 byte, a  *)
(* u64 8, a u16 2, a Pubkey 32, an enum or Option tag 1, a String a u32    *)
(* length and its bytes, a map a u32 count and its entries in key order.   *)
(***************************************************************************)
RECURSIVE StringsLen(_)
StringsLen(S) ==
    IF S = {} THEN 0
    ELSE LET k == CHOOSE x \in S : TRUE IN (4 + Len(k)) + StringsLen(S \ {k})

RECURSIVE StringValuesLen(_, _)
StringValuesLen(m, S) ==
    IF S = {} THEN 0
    ELSE LET k == CHOOSE x \in S : TRUE IN (4 + Len(m[k])) + StringValuesLen(m, S \ {k})

U64MapLen(m) == 4 + StringsLen(DOMAIN m) + 8 * Cardinality(DOMAIN m)

BoolMapLen(m) == 4 + StringsLen(DOMAIN m) + Cardinality(DOMAIN m)

StringMapLen(m) == 4 + StringsLen(DOMAIN m) + StringValuesLen(m, DOMAIN m)

FeeModeLen(f) == IF f.tag = "Fixed" THEN 1 + 8 ELSE 1 + 2

GovernanceLen(o) ==
    IF IsSome(o)
    THEN 1 + 32 + FeeModeLen(o[1].fee_mode) + BoolMapLen(o[1].allowed_tokens)
    ELSE 1

EncodedLen(gsn) ==
    1 + U64MapLen(gsn.consumer) + U64MapLen(gsn.executor)
      + GovernanceLen(gsn.governance)
      + U64MapLen(gsn.consumer_nonces)
      + StringMapLen(gsn.transaction_executor)

(***************************************************************************)
(* The account's data buffer.  holds = TRUE: the buffer starts with the    *)
(* complete encoding of gsn.  holds = FALSE: a serialize that ran out of   *)
(* room left the first DataLen bytes of the encoding of gsn in the buffer  *)
(* (std::io::Write for &mut [u8] copies what fits before it reports the    *)
(* short write); no proper prefix of an encoding decodes.                  *)
(***************************************************************************)
Buffer(holds, gsn) == [holds |-> holds, gsn |-> gsn]

Out(result, buf, transfers, invoked) ==
    [result |-> result, data |-> buf, transfers |-> transfers, invoke |-> invoked]

\* GsnInfo::serialize into the account data; the handler returns its result.
serialize(gsn, transfers, invoked) ==
    IF EncodedLen(gsn) <= DataLen
    THEN Out("Ok", Buffer(TRUE, gsn), transfers, invoked)
    ELSE Out("AccountDataTooSmall", Buffer(FALSE, gsn), transfers, invoked)

\* GsnInfo::deserialize succeeds exactly on a buffer holding an encoding.
deserialize_ok(buf) == buf.holds

Fail(error, buf) == Out(error, buf, <<>>, "-")

(***************************************************************************)
(* processor.rs: the instruction handlers.  Each takes the data buffer     *)
(* and the instruction's inputs and yields the handler's result, the data  *)
(* buffer it leaves, and the transfers it invoked.  enough = FALSE: the    *)
(* account list is shorter than the handler reads (next_account_info).     *)
(***************************************************************************)
process_initialize(buf, enough, has_authority, authority, auth_signer) ==
    IF ~enough THEN Fail("NotEnoughAccountKeys", buf)
    ELSE IF has_authority /\ ~auth_signer THEN Fail("Unauthorized", buf)
    ELSE IF has_authority
         THEN serialize(initialize_governance(new, authority), <<>>, "-")
         ELSE serialize(new, <<>>, "-")

TopupCredit(gsn, consumer, amount) ==
    IF consumer \in DOMAIN gsn.consumer
    THEN [gsn EXCEPT !.consumer =
             EntryOrInsert(@, consumer, gsn.consumer[consumer] + amount)]
    ELSE add_consumer(gsn, consumer, amount)

process_topup(buf, enough, amount, consumer) ==
    IF ~enough THEN Fail("NotEnoughAccountKeys", buf)
    ELSE IF ~deserialize_ok(buf) THEN Fail("InvalidAccountData", buf)
    ELSE serialize(TopupCredit(buf.gsn, consumer, amount), <<>>, "-")

\* A balance check that also rejects a balance equal to the fee.
BalanceCovers_strict(current_balance, fee) == current_balance > fee

\* processor.rs:155, the check is `current_balance < fee`.
BalanceCovers(current_balance, fee) == ~(current_balance < fee)

\* processor.rs:199-220
CreditExecutor(gsn, fee_payer, fee) ==
    IF fee_payer \in DOMAIN gsn.executor
    THEN [gsn EXCEPT !.executor =
             EntryOrInsert(@, fee_payer, gsn.executor[fee_payer] + fee)]
    ELSE add_executor(gsn, fee_payer, fee)

\* processor.rs:222-226
DebitConsumer(gsn, sender, current_balance, fee) ==
    [gsn EXCEPT !.consumer = EntryOrInsert(@, sender, current_balance - fee)]

\* An Ok arm that advances the nonce without writing the audit entry.
SubmitCommit_unrecorded(gsn, sender, nonce, fee_payer, current_balance, fee) ==
    DebitConsumer(
        CreditExecutor(increment_nonce(gsn, sender), fee_payer, fee),
        sender, current_balance, fee)

\* The Ok arm of the transfer: audit entry, nonce, executor credit, consumer debit.
SubmitCommit(gsn, sender, nonce, fee_payer, current_balance, fee) ==
    DebitConsumer(
        CreditExecutor(
            increment_nonce(
                record_transaction_executor(gsn, sender, nonce, fee_payer),
                sender),
            fee_payer, fee),
        sender, current_balance, fee)

\* An Err arm that has already advanced and stored the nonce.
SubmitInvokeErr_burnsNonce(buf, sender, error, transfers) ==
    Out(error, Buffer(TRUE, increment_nonce(buf.gsn, sender)), transfers, error)

\* The Err arm of the transfer: the error is returned, nothing is written.
SubmitInvokeErr(buf, sender, error, transfers) == Out(error, buf, transfers, error)

TransferRequest(from, to, amount) == [from |-> from, to |-> to, amount |-> amount]

\* A handler that checks the balance before the nonce.
process_submit_tx_balanceFirst(buf, enough, amount, nonce, sender, receiver, fee_payer, invoke_result) ==
    IF ~enough THEN Fail("NotEnoughAccountKeys", buf)
    ELSE IF ~deserialize_ok(buf) THEN Fail("InvalidAccountData", buf)
    ELSE LET gsn == buf.gsn IN
         IF sender \notin DOMAIN gsn.consumer THEN Fail("InvalidInstructionData", buf)
         ELSE LET fee == calculate_fee(gsn, amount)
                  current_balance == gsn.consumer[sender]
                  t == <<TransferRequest(sender, receiver, amount)>>
              IN IF ~BalanceCovers(current_balance, fee)
                 THEN Fail("InsufficientBalance", buf)
                 ELSE IF nonce # get_next_nonce(gsn, sender) THEN Fail("InvalidNonce", buf)
                 ELSE IF is_nonce_used(gsn, sender, nonce) THEN Fail("ReplayAttack", buf)
                 ELSE IF invoke_result = "Ok"
                      THEN serialize(SubmitCommit(gsn, sender, nonce, fee_payer,
                                                  current_balance, fee), t, "Ok")
                      ELSE SubmitInvokeErr(buf, sender, invoke_result, t)

process_submit_tx(buf, enough, amount, nonce, sender, receiver, fee_payer, invoke_result) ==
    IF ~enough THEN Fail("NotEnoughAccountKeys", buf)
    ELSE IF ~deserialize_ok(buf) THEN Fail("InvalidAccountData", buf)
    ELSE LET gsn == buf.gsn IN
         IF sender \notin DOMAIN gsn.consumer THEN Fail("InvalidInstructionData", buf)
         ELSE IF nonce # get_next_nonce(gsn, sender) THEN Fail("InvalidNonce", buf)
         ELSE IF is_nonce_used(gsn, sender, nonce) THEN Fail("ReplayAttack", buf)
         ELSE LET fee == calculate_fee(gsn, amount)
                  current_balance == gsn.consumer[sender]
                  t == <<TransferRequest(sender, receiver, amount)>>
              IN IF ~BalanceCovers(current_balance, fee)
                 THEN Fail("InsufficientBalance", buf)
                 ELSE IF invoke_result = "Ok"
                      THEN serialize(SubmitCommit(gsn, sender, nonce, fee_payer,
                                                  current_balance, fee), t, "Ok")
                      ELSE SubmitInvokeErr(buf, sender, invoke_result, t)

MaxBasisPoints == 10000

\* A handler that casts the percent value without checking its range.
process_update_fee_params_unchecked(buf, enough, fee_mode_type, fee_value, authority, signer) ==
    IF ~enough THEN Fail("NotEnoughAccountKeys", buf)
    ELSE IF ~signer THEN Fail("Unauthorized", buf)
    ELSE IF ~deserialize_ok(buf) THEN Fail("InvalidAccountData", buf)
    ELSE IF ~is_authority(buf.gsn, authority) THEN Fail("Unauthorized", buf)
    ELSE IF fee_mode_type = 0
         THEN serialize(update_fee_params(buf.gsn, Fixed(fee_value)), <<>>, "-")
    ELSE IF fee_mode_type = 1
         THEN serialize(update_fee_params(buf.gsn, Percent(fee_value)), <<>>, "-")
    ELSE Fail("InvalidFeeMode", buf)

process_update_fee_params(buf, enough, fee_mode_type, fee_value, authority, signer) ==
    IF ~enough THEN Fail("NotEnoughAccountKeys", buf)
    ELSE IF ~signer THEN Fail("Unauthorized", buf)
    ELSE IF ~deserialize_ok(buf) THEN Fail("InvalidAccountData", buf)
    ELSE IF ~is_authority(buf.gsn, authority) THEN Fail("Unauthorized", buf)
    ELSE IF fee_mode_type = 0
         THEN serialize(update_fee_params(buf.gsn, Fixed(fee_value)), <<>>, "-")
    ELSE IF fee_mode_type = 1
         THEN IF fee_value > MaxBasisPoints
              THEN Fail("InvalidFeeMode", buf)
              ELSE serialize(update_fee_params(buf.gsn, Percent(fee_value)), <<>>, "-")
    ELSE Fail("InvalidFeeMode", buf)

process_add_allowed_token(buf, enough, mint, authority, signer) ==
    IF ~enough THEN Fail("NotEnoughAccountKeys", buf)
    ELSE IF ~signer THEN Fail("Unauthorized", buf)
    ELSE IF ~deserialize_ok(buf) THEN Fail("InvalidAccountData", buf)
    ELSE IF ~is_authority(buf.gsn, authority) THEN Fail("Unauthorized", buf)
    ELSE serialize(add_allowed_token(buf.gsn, mint), <<>>, "-")

process_remove_allowed_token(buf, enough, mint, authority, signer) ==
    IF ~enough THEN Fail("NotEnoughAccountKeys", buf)
    ELSE IF ~signer THEN Fail("Unauthorized", buf)
    ELSE IF ~deserialize_ok(buf) THEN Fail("InvalidAccountData", buf)
    ELSE IF ~is_authority(buf.gsn, authority) THEN Fail("Unauthorized", buf)
    ELSE serialize(remove_allowed_token(buf.gsn, mint), <<>>, "-")

\* A claim check without the destination comparison.
ClaimAuthorized_anyDestination(executor, executor_signer, destination) ==
    executor_signer

\* processor.rs:345-363: the executor signs and claims to its own key.
ClaimAuthorized(executor, executor_signer, destination) ==
    executor_signer /\ executor = destination

\* A reset written with entry().or_insert(), which keeps the earned amount.
ClaimReset_orInsert(gsn, executor) ==
    [gsn EXCEPT !.executor = EntryOrInsert(@, executor, 0)]

\* A claim that pays out and leaves the record as it read it.
ClaimReset_forgotten(gsn, executor) == gsn

\* A reset that clears the earnings of every executor.
ClaimReset_everyExecutor(gsn, executor) ==
    [gsn EXCEPT !.executor = [e \in DOMAIN @ |-> 0]]

\* processor.rs:422-423
ClaimReset(gsn, executor) == [gsn EXCEPT !.executor = MapInsert(@, executor, 0)]

process_claim_fees(buf, enough, executor, executor_signer, destination, invoke_result) ==
    IF ~enough THEN Fail("NotEnoughAccountKeys", buf)
    ELSE IF ~ClaimAuthorized(executor, executor_signer, destination)
         THEN Fail("UnauthorizedFeeClaim", buf)
    ELSE IF ~deserialize_ok(buf) THEN Fail("InvalidAccountData", buf)
    ELSE LET gsn == buf.gsn
             earned_fees == GetOr(gsn.executor, executor, 0)
             t == <<TransferRequest(LedgerKey, destination, earned_fees)>>
         IN IF earned_fees = 0 THEN Fail("InsufficientFunds", buf)
            ELSE IF invoke_result = "Ok"
                 THEN serialize(ClaimReset(gsn, executor), t, "Ok")
                 ELSE Out(invoke_result, buf, t, invoke_result)

(***************************************************************************)
(* State machine.                                                          *)
(***************************************************************************)
NoArgs ==
    [op |-> "-", enough |-> TRUE, amount |-> 0, nonce |-> 0,
     consumer |-> "-", sender |-> "-", receiver |-> "-", executor |-> "-",
     destination |-> "-", authority |-> "-", has_authority |-> FALSE,
     signer |-> FALSE, fee_mode_type |-> 0, fee_value |-> 0, mint |-> "-",
     result |-> "-", transfers |-> <<>>, invoke |-> "-", fee |-> 0]

Done(args, out) ==
    [args EXCEPT !.result = out.result, !.transfers = out.transfers,
                 !.invoke = out.invoke]

NoRelays == [a \in Address |-> 0]

Init ==
    /\ data = Buffer(TRUE, GsnDefault)
    /\ prev = Buffer(TRUE, GsnDefault)
    /\ last = NoArgs
    /\ relayed = NoRelays
    /\ funded = 0
    /\ claimed = 0

\* One instruction: the handler's outcome becomes the new buffer.
Apply(args, out) ==
    /\ data' = out.data
    /\ prev' = data
    /\ last' = Done(args, out)
    /\ UNCHANGED <<funded, claimed>>

Initialize ==
    \/ LET out == process_initialize(data, FALSE, FALSE, "-", FALSE)
           args == [NoArgs EXCEPT !.op = "Initialize", !.enough = FALSE]
       IN Apply(args, out) /\ UNCHANGED relayed
    \/ LET out == process_initialize(data, TRUE, FALSE, "-", FALSE)
           args == [NoArgs EXCEPT !.op = "Initialize"]
       IN /\ Apply(args, out)
          /\ relayed' = IF out.result = "Ok" THEN NoRelays ELSE relayed
    \/ \E authority \in Address, auth_signer \in BOOLEAN :
        LET out == process_initialize(data, TRUE, TRUE, authority, auth_signer)
            args == [NoArgs EXCEPT !.op = "Initialize", !.has_authority = TRUE,
                                   !.authority = authority, !.signer = auth_signer]
        IN /\ Apply(args, out)
           /\ relayed' = IF out.result = "Ok" THEN NoRelays ELSE relayed

TopUp ==
    \/ LET out == process_topup(data, FALSE, 0, "-")
           args == [NoArgs EXCEPT !.op = "TopUp", !.enough = FALSE]
       IN Apply(args, out) /\ UNCHANGED relayed
    \/ \E amount \in TopupAmounts, consumer \in Address :
        LET out == process_topup(data, TRUE, amount, consumer)
            args == [NoArgs EXCEPT !.op = "TopUp", !.amount = amount,
                                   !.consumer = consumer]
        IN Apply(args, out) /\ UNCHANGED relayed

SubmitTransaction ==
    \/ LET out == process_submit_tx(data, FALSE, 0, 0, "-", "-", "-", "Ok")
           args == [NoArgs EXCEPT !.op = "SubmitTransaction", !.enough = FALSE]
       IN Apply(args, out) /\ UNCHANGED relayed
    \/ \E amount \in TxAmounts, nonce \in NonceInputs, sender \in Address,
          receiver \in Receivers, fee_payer \in Address,
          invoke_result \in InvokeOutcomes :
        LET out == process_submit_tx(data, TRUE, amount, nonce, sender,
                                     receiver, fee_payer, invoke_result)
            args == [NoArgs EXCEPT !.op = "SubmitTransaction",
                                   !.amount = amount, !.nonce = nonce,
                                   !.sender = sender, !.receiver = receiver,
                                   !.executor = fee_payer]
        IN /\ invoke_result = "Ok" \/ out.invoke # "-"
           /\ Apply(args, out)
           /\ relayed' = IF out.result = "Ok"
                         THEN [relayed EXCEPT ![sender] = @ + 1]
                         ELSE relayed

UpdateFeeParams ==
    \/ LET out == process_update_fee_params(data, FALSE, 0, 0, "-", FALSE)
           args == [NoArgs EXCEPT !.op = "UpdateFeeParams", !.enough = FALSE]
       IN Apply(args, out) /\ UNCHANGED relayed
    \/ \E params \in FeeParams, authority \in Address, signer \in BOOLEAN :
        LET fee_mode_type == params[1]
            fee_value == params[2]
            out == process_update_fee_params(data, TRUE, fee_mode_type,
                                             fee_value, authority, signer)
            args == [NoArgs EXCEPT !.op = "UpdateFeeParams",
                                   !.fee_mode_type = fee_mode_type,
                                   !.fee_value = fee_value,
                                   !.authority = authority, !.signer = signer]
        IN Apply(args, out) /\ UNCHANGED relayed

AddAllowedToken ==
    \/ LET out == process_add_allowed_token(data, FALSE, "-", "-", FALSE)
           args == [NoArgs EXCEPT !.op = "AddAllowedToken", !.enough = FALSE]
       IN Apply(args, out) /\ UNCHANGED relayed
    \/ \E mint \in Mint, authority \in Address, signer \in BOOLEAN :
        LET out == process_add_allowed_token(data, TRUE, mint, authority, signer)
            args == [NoArgs EXCEPT !.op = "AddAllowedToken", !.mint = mint,
                                   !.authority = authority, !.signer = signer]
        IN Apply(args, out) /\ UNCHANGED relayed

RemoveAllowedToken ==
    \/ LET out == process_remove_allowed_token(data, FALSE, "-", "-", FALSE)
           args == [NoArgs EXCEPT !.op = "RemoveAllowedToken", !.enough = FALSE]
       IN Apply(args, out) /\ UNCHANGED relayed
    \/ \E mint \in Mint, authority \in Address, signer \in BOOLEAN :
        LET out == process_remove_allowed_token(data, TRUE, mint, authority, signer)
            args == [NoArgs EXCEPT !.op = "RemoveAllowedToken", !.mint = mint,
                                   !.authority = authority, !.signer = signer]
        IN Apply(args, out) /\ UNCHANGED relayed

ClaimFees ==
    \/ LET out == process_claim_fees(data, FALSE, "-", FALSE, "-", "Ok")
           args == [NoArgs EXCEPT !.op = "ClaimFees", !.enough = FALSE]
       IN Apply(args, out) /\ UNCHANGED relayed
    \/ \E executor \in Address, executor_signer \in BOOLEAN,
          destination \in Address, invoke_result \in InvokeOutcomes :
        LET out == process_claim_fees(data, TRUE, executor, executor_signer,
                                      destination, invoke_result)
            args == [NoArgs EXCEPT !.op = "ClaimFees",
                                   !.executor = executor, !.signer = executor_signer,
                                   !.destination = destination]
        IN /\ invoke_result = "Ok" \/ out.invoke # "-"
           /\ Apply(args, out)
           /\ UNCHANGED relayed

Next ==
    \/ Initialize
    \/ TopUp
    \/ SubmitTransaction
    \/ UpdateFeeParams
    \/ AddAllowedToken
    \/ RemoveAllowedToken
    \/ ClaimFees

Spec == Init /\ [][Next]_vars

(***************************************************************************)
(* GsnInfo used directly, as tests/security_tests.rs does: a record made   *)
(* by GsnInfo::new() in memory, on which initialize_governance,            *)
(* update_fee_params, add_consumer and calculate_fee are called.  data     *)
(* holds the record, last the call and, for calculate_fee, the fee it      *)
(* returned.  calculate_fee is called on small amounts, as numbers, and on *)
(* amounts over the whole range of u64, as bytes.                          *)
(***************************************************************************)
FeeAmounts == {0, 1, 3, 9999, 10001, 123457, 200000}

StateFeeModes ==
    {Fixed(0), Fixed(100000), Percent(0), Percent(1), Percent(3333), Percent(10000)}

StateInit ==
    /\ data = Buffer(TRUE, new)
    /\ prev = Buffer(TRUE, new)
    /\ last = NoArgs
    /\ relayed = NoRelays
    /\ funded = 0
    /\ claimed = 0

CallInitializeGovernance ==
    \E authority \in Address :
        /\ data' = Buffer(TRUE, initialize_governance(data.gsn, authority))
        /\ prev' = data
        /\ last' = [NoArgs EXCEPT !.op = "initialize_governance",
                                  !.authority = authority, !.result = "Ok"]
        /\ UNCHANGED <<relayed, funded, claimed>>

CallUpdateFeeParams ==
    \E fee_mode \in StateFeeModes :
        /\ data' = Buffer(TRUE, update_fee_params(data.gsn, fee_mode))
        /\ prev' = data
        /\ last' = [NoArgs EXCEPT !.op = "update_fee_params",
                                  !.fee_mode_type = IF fee_mode.tag = "Fixed" THEN 0 ELSE 1,
                                  !.fee_value = fee_mode.value, !.result = "Ok"]
        /\ UNCHANGED <<relayed, funded, claimed>>

CallCalculateFee ==
    \E transaction_amount \in FeeAmounts :
        /\ data' = data
        /\ prev' = data
        /\ last' = [NoArgs EXCEPT !.op = "calculate_fee",
                                  !.amount = transaction_amount,
                                  !.fee = calculate_fee(data.gsn, transaction_amount),
                                  !.result = "Ok"]
        /\ UNCHANGED <<relayed, funded, claimed>>

\* u64 amounts by their bytes: 12345, 2^32, 2^63, 10^19 and 2^64 - 1.
FeeAmountsLe ==
    {<<57, 48, 0, 0, 0, 0, 0, 0>>,
     <<0, 0, 0, 0, 1, 0, 0, 0>>,
     <<0, 0, 0, 0, 0, 0, 0, 128>>,
     <<0, 0, 232, 137, 4, 35, 199, 138>>,
     <<255, 255, 255, 255, 255, 255, 255, 255>>}

\* calculate_fee on amounts over the whole range of u64; last.amount and
\* last.fee hold the bytes of the amount and of the fee.
CallCalculateFeeLe ==
    \E transaction_amount \in FeeAmountsLe :
        /\ data' = data
        /\ prev' = data
        /\ last' = [NoArgs EXCEPT !.op = "calculate_fee_le",
                                  !.amount = transaction_amount,
                                  !.fee = calculate_fee_le(data.gsn, transaction_amount),
                                  !.result = "Ok"]
        /\ UNCHANGED <<relayed, funded, claimed>>

\* Balances the tests give a consumer.
StateBalances == {50000, 100000}

CallAddConsumer ==
    \E address \in Address, amount \in StateBalances :
        /\ data' = Buffer(TRUE, add_consumer(data.gsn, address, amount))
        /\ prev' = data
        /\ last' = [NoArgs EXCEPT !.op = "add_consumer",
                                  !.consumer = address, !.amount = amount,
                                  !.result = "Ok"]
        /\ UNCHANGED <<relayed, funded, claimed>>

StateNext ==
    \/ CallInitializeGovernance
    \/ CallUpdateFeeParams
    \/ CallAddConsumer
    \/ CallCalculateFee
    \/ CallCalculateFeeLe

SpecState == StateInit /\ [][StateNext]_vars

(***************************************************************************)
(* The ledger from its first Initialize on, with the running totals the    *)
(* instructions move: funded is the sum of the amounts of the successful   *)
(* TopUps since the last successful Initialize, claimed the sum of the     *)
(* amounts paid out by the successful ClaimFees since then.  A successful  *)
(* Initialize writes a new empty record, and the totals start again.       *)
(***************************************************************************)
\* Largest sum of TopUp amounts followed.
MaxFunded == 50000

LedgerInit ==
    \E has_authority \in BOOLEAN :
        LET authority == IF has_authority THEN A1 ELSE "-"
            out == process_initialize(Buffer(TRUE, GsnDefault), TRUE,
                                      has_authority, authority, has_authority)
            args == [NoArgs EXCEPT !.op = "Initialize",
                                   !.has_authority = has_authority,
                                   !.authority = authority,
                                   !.signer = has_authority]
        IN /\ data = out.data
           /\ prev = Buffer(TRUE, GsnDefault)
           /\ last = Done(args, out)
           /\ relayed = NoRelays
           /\ funded = 0
           /\ claimed = 0

\* One instruction and what it adds to the two totals.
Account(args, out, topped_up, paid_out) ==
    /\ data' = out.data
    /\ prev' = data
    /\ last' = Done(args, out)
    /\ funded' = funded + topped_up
    /\ claimed' = claimed + paid_out

\* A successful Initialize starts a new record and new totals.
Restart(args, out) ==
    /\ data' = out.data
    /\ prev' = data
    /\ last' = Done(args, out)
    /\ relayed' = IF out.result = "Ok" THEN NoRelays ELSE relayed
    /\ funded' = IF out.result = "Ok" THEN 0 ELSE funded
    /\ claimed' = IF out.result = "Ok" THEN 0 ELSE claimed

LedgerInitialize ==
    \/ LET out == process_initialize(data, FALSE, FALSE, "-", FALSE)
           args == [NoArgs EXCEPT !.op = "Initialize", !.enough = FALSE]
       IN Restart(args, out)
    \/ LET out == process_initialize(data, TRUE, FALSE, "-", FALSE)
           args == [NoArgs EXCEPT !.op = "Initialize"]
       IN Restart(args, out)
    \/ \E authority \in Address, auth_signer \in BOOLEAN :
        LET out == process_initialize(data, TRUE, TRUE, authority, auth_signer)
            args == [NoArgs EXCEPT !.op = "Initialize", !.has_authority = TRUE,
                                   !.authority = authority, !.signer = auth_signer]
        IN Restart(args, out)

LedgerTopUp ==
    \/ LET out == process_topup(data, FALSE, 0, "-")
           args == [NoArgs EXCEPT !.op = "TopUp", !.enough = FALSE]
       IN Account(args, out, 0, 0) /\ UNCHANGED relayed
    \/ \E amount \in TopupAmounts, consumer \in Address :
        LET out == process_topup(data, TRUE, amount, consumer)
            args == [NoArgs EXCEPT !.op = "TopUp", !.amount = amount,
                                   !.consumer = consumer]
        IN /\ funded + amount <= MaxFunded
           /\ Account(args, out, IF out.result = "Ok" THEN amount ELSE 0, 0)
           /\ UNCHANGED relayed

LedgerSubmitTransaction ==
    \/ LET out == process_submit_tx(data, FALSE, 0, 0, "-", "-", "-", "Ok")
           args == [NoArgs EXCEPT !.op = "SubmitTransaction", !.enough = FALSE]
       IN Account(args, out, 0, 0) /\ UNCHANGED relayed
    \/ \E amount \in TxAmounts, nonce \in NonceInputs, sender \in Address,
          receiver \in Receivers, fee_payer \in Address,
          invoke_result \in InvokeOutcomes :
           LET out == process_submit_tx(data, TRUE, amount, nonce, sender,
                                        receiver, fee_payer, invoke_result)
               args == [NoArgs EXCEPT !.op = "SubmitTransaction",
                                      !.amount = amount, !.nonce = nonce,
                                      !.sender = sender, !.receiver = receiver,
                                      !.executor = fee_payer]
           IN /\ invoke_result = "Ok" \/ out.invoke # "-"
              /\ Account(args, out, 0, 0)
              /\ relayed' = IF out.result = "Ok"
                            THEN [relayed EXCEPT ![sender] = @ + 1]
                            ELSE relayed

LedgerClaimFees ==
    \/ LET out == process_claim_fees(data, FALSE, "-", FALSE, "-", "Ok")
           args == [NoArgs EXCEPT !.op = "ClaimFees", !.enough = FALSE]
       IN Account(args, out, 0, 0) /\ UNCHANGED relayed
    \/ \E executor \in Address, executor_signer \in BOOLEAN,
          destination \in Address, invoke_result \in InvokeOutcomes :
           LET out == process_claim_fees(data, TRUE, executor, executor_signer,
                                         destination, invoke_result)
               args == [NoArgs EXCEPT !.op = "ClaimFees",
                                      !.executor = executor, !.signer = executor_signer,
                                      !.destination = destination]
           IN /\ invoke_result = "Ok" \/ out.invoke # "-"
              /\ Account(args, out, 0,
                         IF out.result = "Ok" THEN out.transfers[1].amount ELSE 0)
              /\ UNCHANGED relayed

LedgerUpdateFeeParams ==
    \/ LET out == process_update_fee_params(data, FALSE, 0, 0, "-", FALSE)
           args == [NoArgs EXCEPT !.op = "UpdateFeeParams", !.enough = FALSE]
       IN Account(args, out, 0, 0) /\ UNCHANGED relayed
    \/ \E params \in FeeParams, authority \in Address, signer \in BOOLEAN :
           LET out == process_update_fee_params(data, TRUE, params[1], params[2],
                                                authority, signer)
               args == [NoArgs EXCEPT !.op = "UpdateFeeParams",
                                      !.fee_mode_type = params[1],
                                      !.fee_value = params[2],
                                      !.authority = authority, !.signer = signer]
           IN Account(args, out, 0, 0) /\ UNCHANGED relayed

LedgerAddAllowedToken ==
    \/ LET out == process_add_allowed_token(data, FALSE, "-", "-", FALSE)
           args == [NoArgs EXCEPT !.op = "AddAllowedToken", !.enough = FALSE]
       IN Account(args, out, 0, 0) /\ UNCHANGED relayed
    \/ \E mint \in Mint, authority \in Address, signer \in BOOLEAN :
           LET out == process_add_allowed_token(data, TRUE, mint, authority, signer)
               args == [NoArgs EXCEPT !.op = "AddAllowedToken", !.mint = mint,
                                      !.authority = authority, !.signer = signer]
           IN Account(args, out, 0, 0) /\ UNCHANGED relayed

LedgerRemoveAllowedToken ==
    \/ LET out == process_remove_allowed_token(data, FALSE, "-", "-", FALSE)
           args == [NoArgs EXCEPT !.op = "RemoveAllowedToken", !.enough = FALSE]
       IN Account(args, out, 0, 0) /\ UNCHANGED relayed
    \/ \E mint \in Mint, authority \in Address, signer \in BOOLEAN :
           LET out == process_remove_allowed_token(data, TRUE, mint, authority, signer)
               args == [NoArgs EXCEPT !.op = "RemoveAllowedToken", !.mint = mint,
                                      !.authority = authority, !.signer = signer]
           IN Account(args, out, 0, 0) /\ UNCHANGED relayed

LedgerNext ==
    \/ LedgerInitialize
    \/ LedgerTopUp
    \/ LedgerSubmitTransaction
    \/ LedgerClaimFees
    \/ LedgerUpdateFeeParams
    \/ LedgerAddAllowedToken
    \/ LedgerRemoveAllowedToken

SpecLedger == LedgerInit /\ [][LedgerNext]_vars

(***************************************************************************)
(* Properties.  prev is the buffer before the last instruction, last the   *)
(* instruction with its result, data the buffer after it.                  *)
(***************************************************************************)
SubmitActed == last.op = "SubmitTransaction" /\ last.enough

SubmitSucceeded == SubmitActed /\ last.result = "Ok"

\* The fee the last SubmitTransaction was charged, from the record it read.
SubmitFee == calculate_fee(prev.gsn, last.amount)

\* The last SubmitTransaction passed the sender and nonce checks.
SubmitReachedFeeCheck ==
    /\ SubmitActed
    /\ prev.holds
    /\ last.sender \in DOMAIN prev.gsn.consumer
    /\ last.nonce = get_next_nonce(prev.gsn, last.sender)

\* C1: every successful SubmitTransaction leaves the sender's consumer
\* balance at its balance before the instruction minus the fee.
C1_SubmitDebitsSender ==
    SubmitSucceeded =>
        data.gsn.consumer[last.sender] = prev.gsn.consumer[last.sender] - SubmitFee

\* C2: every successful SubmitTransaction leaves the executor's balance at
\* its balance before the instruction (0 if absent) plus the fee.
C2_SubmitCreditsExecutor ==
    SubmitSucceeded =>
        GetOr(data.gsn.executor, last.executor, 0)
            = GetOr(prev.gsn.executor, last.executor, 0) + SubmitFee

\* C3: a successful TopUp leaves the consumer's balance at its balance
\* before the instruction (0 if absent) plus the amount.
C3_TopUpAddsAmount ==
    (last.op = "TopUp" /\ last.result = "Ok") =>
        GetOr(data.gsn.consumer, last.consumer, 0)
            = GetOr(prev.gsn.consumer, last.consumer, 0) + last.amount

\* C4: with a known sender and the expected nonce, a balance below the fee
\* gives InsufficientBalance with no transfer invoked and the buffer left
\* as it was; a balance of at least the fee gets the transfer invoked.
C4_FeeCheckBeforeTransfer ==
    SubmitReachedFeeCheck =>
        /\ prev.gsn.consumer[last.sender] < SubmitFee =>
              /\ last.result = "InsufficientBalance"
              /\ last.transfers = <<>>
              /\ data = prev
        /\ prev.gsn.consumer[last.sender] >= SubmitFee =>
              last.transfers
                  = <<TransferRequest(last.sender, last.receiver, last.amount)>>

C4_Witness ==
    /\ SubmitReachedFeeCheck
    /\ prev.gsn.consumer[last.sender] > 0
    /\ prev.gsn.consumer[last.sender] < SubmitFee
    /\ last.result = "InsufficientBalance"

\* C5: when the transfer invoked by SubmitTransaction fails, its error is
\* the handler's result, the buffer is left as it was, and the submitted
\* nonce is still the sender's next expected nonce.
C5_FailedTransferNoEffect ==
    (SubmitActed /\ last.invoke \notin {"-", "Ok"}) =>
        /\ last.result = last.invoke
        /\ data = prev
        /\ last.nonce = get_next_nonce(data.gsn, last.sender)
        /\ ~is_nonce_used(data.gsn, last.sender, last.nonce)

C5_Witness ==
    /\ SubmitActed
    /\ last.invoke = "TransferFailed"
    /\ last.result = "TransferFailed"
    /\ last.nonce > 0

\* C6: a successful SubmitTransaction moves the sender's next nonce from
\* the submitted nonce to the submitted nonce plus one; the next nonce of a
\* consumer is the number of its successful submissions since the record
\* was created, and a nonce counts as used exactly when it is below that.
C6_NonceCountsSuccesses ==
    /\ SubmitSucceeded =>
          /\ get_next_nonce(prev.gsn, last.sender) = last.nonce
          /\ get_next_nonce(data.gsn, last.sender) = last.nonce + 1
    /\ data.holds =>
          \A c \in Address :
              /\ get_next_nonce(data.gsn, c) = relayed[c]
              /\ \A n \in NonceInputs :
                    is_nonce_used(data.gsn, c, n) <=> n < relayed[c]

C6_Witness ==
    /\ SubmitSucceeded
    /\ last.nonce = 1
    /\ relayed[last.sender] = 2
    /\ is_nonce_used(data.gsn, last.sender, 1)

\* C7: for a known sender a nonce below the expected one gives ReplayAttack
\* and a nonce above it gives InvalidNonce, in both cases with no transfer
\* invoked and the buffer left as it was.
C7_ReplayReportedAsReplayAttack ==
    (SubmitActed /\ prev.holds /\ last.sender \in DOMAIN prev.gsn.consumer) =>
        /\ last.nonce < get_next_nonce(prev.gsn, last.sender) =>
              last.result = "ReplayAttack" /\ last.transfers = <<>> /\ data = prev
        /\ last.nonce > get_next_nonce(prev.gsn, last.sender) =>
              last.result = "InvalidNonce" /\ last.transfers = <<>> /\ data = prev

\* C8: after a successful SubmitTransaction the audit map holds the
\* executor under (sender, nonce), and the lookup returns that executor
\* and no other address.
C8_AuditRecordsExecutor ==
    SubmitSucceeded =>
        /\ TxKey(last.sender, last.nonce) \in DOMAIN data.gsn.transaction_executor
        /\ data.gsn.transaction_executor[TxKey(last.sender, last.nonce)] = last.executor
        /\ get_transaction_executor(data.gsn, last.sender, last.nonce) = Some(last.executor)
        /\ \A a \in Address \ {last.executor} :
              get_transaction_executor(data.gsn, last.sender, last.nonce) # Some(a)

C8_Witness ==
    /\ SubmitSucceeded
    /\ last.executor # last.sender
    /\ last.nonce = 1
    /\ get_transaction_executor(data.gsn, last.sender, 0) # Some(last.executor)
    /\ get_transaction_executor(data.gsn, last.sender, 1) = Some(last.executor)

\* C9: an instruction whose handler returns an error leaves the ledger
\* account's buffer exactly as it was before the instruction.
C9_ErrorLeavesRecord ==
    (last.op # "-" /\ last.result # "Ok") => data = prev

\* C10: a ClaimFees whose executor account is not a signer, or whose
\* destination is not the executor, gives UnauthorizedFeeClaim with no
\* transfer invoked and the buffer left as it was, whatever was earned.
C10_UnauthorizedClaimRejected ==
    (last.op = "ClaimFees" /\ last.enough
        /\ (~last.signer \/ last.destination # last.executor)) =>
        /\ last.result = "UnauthorizedFeeClaim"
        /\ last.transfers = <<>>
        /\ data = prev

C10_Witness ==
    /\ last.op = "ClaimFees" /\ last.enough
    /\ last.signer
    /\ last.destination # last.executor
    /\ data.holds
    /\ GetOr(data.gsn.executor, last.executor, 0) > 0
    /\ last.result = "UnauthorizedFeeClaim"

\* The last ClaimFees passed the signer and destination checks and read
\* the record.
ClaimAuthorizedActed ==
    /\ last.op = "ClaimFees" /\ last.enough
    /\ last.signer /\ last.destination = last.executor
    /\ prev.holds

\* What the executor of the last ClaimFees had earned when it claimed.
ClaimEarned == GetOr(prev.gsn.executor, last.executor, 0)

\* C11: an authorized ClaimFees with a positive earned balance requests one
\* transfer of exactly that balance from the ledger account to the executor;
\* if the transfer succeeds the executor's balance is 0 afterwards, if it
\* fails its error is the result and the balance is still what was earned.
C11_ClaimPaysEarnedAndResets ==
    (ClaimAuthorizedActed /\ ClaimEarned > 0) =>
        /\ last.transfers = <<TransferRequest(LedgerKey, last.executor, ClaimEarned)>>
        /\ last.invoke = "Ok" =>
              /\ last.result = "Ok"
              /\ data.holds
              /\ last.executor \in DOMAIN data.gsn.executor
              /\ data.gsn.executor[last.executor] = 0
        /\ last.invoke # "Ok" =>
              /\ last.result = last.invoke
              /\ data.holds
              /\ GetOr(data.gsn.executor, last.executor, 0) = ClaimEarned

C11_Witness ==
    /\ ClaimAuthorizedActed
    /\ ClaimEarned = 50000
    /\ last.invoke = "Ok"
    /\ last.result = "Ok"
    /\ data.gsn.executor[last.executor] = 0

\* C12: an authorized ClaimFees by an executor with an earned balance of 0,
\* or with no entry, gives InsufficientFunds with no transfer invoked; so
\* right after a successful ClaimFees a second one by the same executor
\* cannot succeed.
C12_NothingEarnedNothingClaimed ==
    /\ (ClaimAuthorizedActed /\ ClaimEarned = 0) =>
          /\ last.result = "InsufficientFunds"
          /\ last.transfers = <<>>
          /\ data = prev
    /\ (ClaimAuthorizedActed /\ last.result = "Ok") =>
          \A outcome \in InvokeOutcomes :
              LET again == process_claim_fees(data, TRUE, last.executor, TRUE,
                                              last.executor, outcome)
              IN again.result = "InsufficientFunds" /\ again.transfers = <<>>

C12_Witness ==
    /\ ClaimAuthorizedActed
    /\ last.executor \in DOMAIN prev.gsn.executor
    /\ ClaimEarned = 0
    /\ last.result = "InsufficientFunds"

GovernanceOps == {"UpdateFeeParams", "AddAllowedToken", "RemoveAllowedToken"}

\* The last governance instruction did not come from the authority of the
\* record it ran against: no signature, no governance, or another key.
NotFromAuthority ==
    \/ ~last.signer
    \/ prev.holds /\ ~IsSome(prev.gsn.governance)
    \/ prev.holds /\ IsSome(prev.gsn.governance)
                  /\ prev.gsn.governance[1].authority # last.authority

\* The three governance instructions reject a caller that is not the
\* signing authority and leave the buffer as it was.
GovernanceGate ==
    (last.op \in GovernanceOps /\ last.enough /\ NotFromAuthority) =>
        last.result = "Unauthorized" /\ data = prev

\* C13: UpdateFeeParams, AddAllowedToken and RemoveAllowedToken give
\* Unauthorized and leave the record unchanged when the authority account
\* is not a signer, governance is absent or the key is not the authority;
\* and a configured fee policy or allow-list changes only through one of
\* these instructions signed by the record's authority.
C13_GovernanceChangesOnlyByAuthority ==
    /\ GovernanceGate
    /\ (prev.holds /\ data.holds /\ IsSome(prev.gsn.governance)
            /\ (~IsSome(data.gsn.governance)
                \/ data.gsn.governance[1].fee_mode # prev.gsn.governance[1].fee_mode
                \/ data.gsn.governance[1].allowed_tokens
                       # prev.gsn.governance[1].allowed_tokens)) =>
          /\ last.op \in GovernanceOps
          /\ last.signer
          /\ last.authority = prev.gsn.governance[1].authority

\* C14: UpdateFeeParams by the authority with a percent value above 10000,
\* or with a mode tag other than 0 and 1, gives InvalidFeeMode and leaves
\* the record unchanged; a percent fee policy never exceeds 10000.
C14_PercentAtMostTenThousand ==
    /\ (last.op = "UpdateFeeParams" /\ last.enough /\ last.signer /\ prev.holds
            /\ is_authority(prev.gsn, last.authority)
            /\ (\/ last.fee_mode_type = 1 /\ last.fee_value > 10000
                \/ last.fee_mode_type \notin {0, 1})) =>
          last.result = "InvalidFeeMode" /\ data = prev
    /\ (IsSome(data.gsn.governance)
            /\ data.gsn.governance[1].fee_mode.tag = "Percent") =>
          data.gsn.governance[1].fee_mode.value <= 10000

C14_Witness ==
    /\ last.op = "UpdateFeeParams" /\ last.enough /\ last.signer /\ prev.holds
    /\ is_authority(prev.gsn, last.authority)
    /\ last.fee_mode_type = 1 /\ last.fee_value = 10001
    /\ prev.gsn.governance[1].fee_mode = Percent(100)
    /\ last.result = "InvalidFeeMode"

\* C15: Initialize writes an empty, initialized record: without an
\* authority account governance is absent; with a signing authority
\* governance holds that authority, Fixed(50000) and an empty allow-list;
\* with an authority that does not sign it gives Unauthorized and writes
\* nothing.
C15_InitializeWritesEmptyRecord ==
    (last.op = "Initialize" /\ last.enough) =>
        /\ (last.has_authority /\ ~last.signer) =>
              last.result = "Unauthorized" /\ data = prev
        /\ ~(last.has_authority /\ ~last.signer) =>
              /\ last.result = "Ok"
              /\ data.holds
              /\ data.gsn.is_initialized
              /\ DOMAIN data.gsn.consumer = {}
              /\ DOMAIN data.gsn.executor = {}
              /\ DOMAIN data.gsn.consumer_nonces = {}
              /\ DOMAIN data.gsn.transaction_executor = {}
              /\ ~last.has_authority => data.gsn.governance = <<>>
              /\ last.has_authority =>
                    data.gsn.governance
                        = <<[authority |-> last.authority,
                             fee_mode |-> [tag |-> "Fixed", value |-> 50000],
                             allowed_tokens |-> EmptyMap]>>

C15_Witness ==
    /\ last.op = "Initialize" /\ last.enough
    /\ last.has_authority /\ last.signer
    /\ ~prev.gsn.is_initialized
    /\ last.result = "Ok"
    /\ data.gsn.governance[1].authority = last.authority

\* C18: a token is allowed exactly when governance is absent, the
\* allow-list is empty, or the list maps the token to true; after a
\* successful AddAllowedToken(t), t is allowed and every token outside the
\* list is not.
C18_TokenAllowedExactlyWhenListed ==
    /\ \A t \in Mint :
          is_token_allowed(data.gsn, t) <=>
              \/ ~IsSome(data.gsn.governance)
              \/ DOMAIN data.gsn.governance[1].allowed_tokens = {}
              \/ /\ t \in DOMAIN data.gsn.governance[1].allowed_tokens
                 /\ data.gsn.governance[1].allowed_tokens[t]
    /\ (last.op = "AddAllowedToken" /\ last.result = "Ok") =>
          /\ is_token_allowed(data.gsn, last.mint)
          /\ \A t \in Mint \ DOMAIN data.gsn.governance[1].allowed_tokens :
                ~is_token_allowed(data.gsn, t)

C18_Witness ==
    /\ last.op = "AddAllowedToken" /\ last.result = "Ok"
    /\ DOMAIN data.gsn.governance[1].allowed_tokens = {last.mint}
    /\ is_token_allowed(data.gsn, last.mint)
    /\ \E t \in Mint : ~is_token_allowed(data.gsn, t)

\* C19: no instruction, Initialize on an initialized ledger included,
\* lowers the next expected nonce of any consumer.
C19_NonceNeverDecreases ==
    (prev.holds /\ data.holds) =>
        \A c \in Address :
            get_next_nonce(data.gsn, c) >= get_next_nonce(prev.gsn, c)

\* C20: once governance has an authority, no instruction, a further
\* Initialize included, leaves the record with another authority or with
\* no governance.
C20_AuthorityIsPermanent ==
    (prev.holds /\ data.holds /\ IsSome(prev.gsn.governance)) =>
        /\ IsSome(data.gsn.governance)
        /\ data.gsn.governance[1].authority = prev.gsn.governance[1].authority

\* x < y and x <= y for two numbers of the same width, given by their bytes.
LessLe(x, y) ==
    \E i \in 1..Len(x) :
        x[i] < y[i] /\ \A j \in (i + 1)..Len(x) : x[j] = y[j]

LeqLe(x, y) == x = y \/ LessLe(x, y)

RECURSIVE AddFrom(_, _, _)
AddFrom(x, i, carry) ==
    IF i > Len(x) THEN <<>>
    ELSE <<(x[i] + carry) % 256>> \o AddFrom(x, i + 1, (x[i] + carry) \div 256)

\* x + m at the width of x.
AddLe(x, m) == AddFrom(x, 1, m)

\* C16: calculate_fee returns 50000 without governance, F under Fixed(F)
\* whatever the amount, and under Percent(bp) the floor of amount * bp /
\* 10000, which is at most the amount for bp up to 10000; this for every
\* amount up to 2^64 - 1, the product being formed in 128 bits; the record
\* is the same after the call.
C16_CalculateFeeByMode ==
    /\ last.op = "calculate_fee" =>
          /\ data = prev
          /\ ~IsSome(data.gsn.governance) => last.fee = 50000
          /\ IsSome(data.gsn.governance) =>
                LET mode == data.gsn.governance[1].fee_mode IN
                /\ mode.tag = "Fixed" => last.fee = mode.value
                /\ mode.tag = "Percent" =>
                      /\ last.fee * 10000 <= last.amount * mode.value
                      /\ last.amount * mode.value < (last.fee + 1) * 10000
                      /\ mode.value <= 10000 => last.fee <= last.amount
          /\ u64(last.fee) = calculate_fee_le(data.gsn, u64(last.amount))
    /\ last.op = "calculate_fee_le" =>
          /\ data = prev
          /\ Len(last.fee) = 8
          /\ \A i \in 1..8 : last.fee[i] \in 0..255
          /\ ~IsSome(data.gsn.governance) => last.fee = u64(50000)
          /\ IsSome(data.gsn.governance) =>
                LET mode == data.gsn.governance[1].fee_mode
                    product == wrapping_mul(as_u128(last.amount), mode.value)
                    back == wrapping_mul(as_u128(last.fee), 10000)
                IN /\ mode.tag = "Fixed" => last.fee = u64(mode.value)
                   /\ mode.tag = "Percent" =>
                         /\ LeqLe(back, product)
                         /\ LessLe(product, AddLe(back, 10000))
                         /\ mode.value <= 10000 => LeqLe(last.fee, last.amount)

\* (2^64 - 1) * 3333 / 10000 = 6148299799767393553, a product above 2^64.
C16_Witness ==
    /\ last.op = "calculate_fee_le"
    /\ IsSome(data.gsn.governance)
    /\ data.gsn.governance[1].fee_mode = Percent(3333)
    /\ last.amount = <<255, 255, 255, 255, 255, 255, 255, 255>>
    /\ last.fee = <<17, 165, 189, 193, 23, 38, 83, 85>>

\* C17: after update_fee_params(Fixed(F)) on a record fresh from
\* GsnInfo::new(), calculate_fee returns F for every amount.
C17_FixedFeeOnNewRecord ==
    (last.op = "update_fee_params" /\ prev = Buffer(TRUE, new)
        /\ last.fee_mode_type = 0) =>
        \A a \in FeeAmounts : calculate_fee(data.gsn, a) = last.fee_value

\* C21: no SubmitTransaction returns ReplayAttack: a nonce other than the
\* expected one has already been answered with InvalidNonce, and the
\* expected nonce is never a used one.
C21_ReplayAttackNeverReturned ==
    /\ last.result # "ReplayAttack"
    /\ (SubmitActed /\ prev.holds /\ last.sender \in DOMAIN prev.gsn.consumer
            /\ last.nonce # get_next_nonce(prev.gsn, last.sender)) =>
          last.result = "InvalidNonce"

C21_Witness ==
    /\ SubmitActed /\ prev.holds
    /\ last.sender \in DOMAIN prev.gsn.consumer
    /\ is_nonce_used(prev.gsn, last.sender, last.nonce)
    /\ last.result = "InvalidNonce"

\* C22: SubmitTransaction answers with the first failing check in the order
\* sender, nonce, balance, transfer: an unknown sender gets
\* InvalidInstructionData whatever the nonce; a known sender with a wrong
\* nonce gets a nonce error even with a balance below the fee;
\* InsufficientBalance comes only with the expected nonce, a transfer error
\* only with the expected nonce and a covering balance; a sender whose entry
\* holds 0 is a known sender.
C22_FirstFailingCheckReported ==
    (SubmitActed /\ prev.holds) =>
        LET known == last.sender \in DOMAIN prev.gsn.consumer
            expected == get_next_nonce(prev.gsn, last.sender)
        IN /\ ~known => last.result = "InvalidInstructionData"
           /\ (known /\ last.nonce # expected) =>
                 last.result \in {"InvalidNonce", "ReplayAttack"}
           /\ last.result = "InsufficientBalance" =>
                 /\ known
                 /\ last.nonce = expected
                 /\ prev.gsn.consumer[last.sender] < SubmitFee
           /\ last.result \in InvokeOutcomes \ {"Ok"} =>
                 /\ known
                 /\ last.nonce = expected
                 /\ prev.gsn.consumer[last.sender] >= SubmitFee
           /\ (known /\ prev.gsn.consumer[last.sender] = 0) =>
                 last.result # "InvalidInstructionData"

C22_Witness ==
    /\ SubmitActed /\ prev.holds
    /\ last.sender \in DOMAIN prev.gsn.consumer
    /\ prev.gsn.consumer[last.sender] = 0
    /\ prev.gsn.consumer[last.sender] < SubmitFee
    /\ last.nonce > get_next_nonce(prev.gsn, last.sender)
    /\ last.result = "InvalidNonce"

\* Between two records that decode, no instruction other than Initialize
\* changes or removes an entry of the audit map.
AuditKeptWhereDecodes ==
    (last.op # "Initialize" /\ prev.holds /\ data.holds) =>
        \A k \in DOMAIN prev.gsn.transaction_executor :
            /\ k \in DOMAIN data.gsn.transaction_executor
            /\ data.gsn.transaction_executor[k] = prev.gsn.transaction_executor[k]

\* C23: after any instruction other than Initialize every entry of the
\* audit map is still there, in a record that can be read, with the
\* executor it had: an entry under (c, n) is never overwritten and never
\* removed, also when another executor relays for c afterwards.
C23_AuditEntriesKept ==
    (last.op # "Initialize" /\ prev.holds) =>
        \A k \in DOMAIN prev.gsn.transaction_executor :
            /\ data.holds
            /\ k \in DOMAIN data.gsn.transaction_executor
            /\ data.gsn.transaction_executor[k] = prev.gsn.transaction_executor[k]

\* The last TopUp ran against a record that decodes and is initialized.
TopUpActed ==
    last.op = "TopUp" /\ last.enough /\ prev.holds /\ prev.gsn.is_initialized

\* C24: on an initialized ledger TopUp, which takes no signer, succeeds for
\* every consumer and amount and leaves the balances of the other
\* consumers, the executor balances, the nonces, the governance config and
\* the audit map as they were.
C24_TopUpSucceedsAndFrames ==
    TopUpActed =>
        /\ last.result = "Ok"
        /\ data.holds
        /\ MapRemove(data.gsn.consumer, last.consumer)
               = MapRemove(prev.gsn.consumer, last.consumer)
        /\ data.gsn.executor = prev.gsn.executor
        /\ data.gsn.consumer_nonces = prev.gsn.consumer_nonces
        /\ data.gsn.governance = prev.gsn.governance
        /\ data.gsn.transaction_executor = prev.gsn.transaction_executor

\* Executors named by some entry of the audit map.
Serviced(gsn) ==
    {gsn.transaction_executor[k] : k \in DOMAIN gsn.transaction_executor}

\* C25: a ClaimFees by executor e requests no transfer but that of e's own
\* earned balance to e, and leaves the balances of the other executors,
\* the consumer balances, the nonces, the governance config and the audit
\* map as they were; an executor named by no audit entry has earned 0 and
\* its claim pays nothing.
C25_ClaimTouchesOnlyOwnEarnings ==
    /\ (last.op = "ClaimFees" /\ last.enough /\ prev.holds) =>
          /\ \A i \in DOMAIN last.transfers :
                last.transfers[i]
                    = TransferRequest(LedgerKey, last.executor, ClaimEarned)
          /\ data.holds
          /\ MapRemove(data.gsn.executor, last.executor)
                 = MapRemove(prev.gsn.executor, last.executor)
          /\ data.gsn.consumer = prev.gsn.consumer
          /\ data.gsn.consumer_nonces = prev.gsn.consumer_nonces
          /\ data.gsn.governance = prev.gsn.governance
          /\ data.gsn.transaction_executor = prev.gsn.transaction_executor
          /\ last.executor \notin Serviced(prev.gsn) =>
                last.transfers = <<>> /\ last.result # "Ok"
    /\ data.holds =>
          \A e \in Address \ Serviced(data.gsn) :
              GetOr(data.gsn.executor, e, 0) = 0

C25_Witness ==
    /\ ClaimAuthorizedActed
    /\ last.result = "Ok"
    /\ ClaimEarned > 0
    /\ \E e \in Address \ {last.executor} :
          /\ e \in DOMAIN prev.gsn.executor
          /\ prev.gsn.executor[e] > 0
          /\ data.gsn.executor[e] = prev.gsn.executor[e]

RECURSIVE MapSum(_, _)
MapSum(m, S) ==
    IF S = {} THEN 0
    ELSE LET k == CHOOSE x \in S : TRUE IN m[k] + MapSum(m, S \ {k})

\* Sum of all consumer balances plus sum of all executor balances.
Total(gsn) ==
    MapSum(gsn.consumer, DOMAIN gsn.consumer)
        + MapSum(gsn.executor, DOMAIN gsn.executor)

\* C26: a successful SubmitTransaction leaves the sum of all consumer and
\* executor balances as it was; a successful TopUp raises it by the amount,
\* a successful ClaimFees lowers it by what was earned, and governance
\* instructions leave it alone.
C26_FeeBookkeepingConserved ==
    (last.op \notin {"-", "Initialize"} /\ last.result = "Ok"
        /\ prev.holds /\ data.holds) =>
        Total(data.gsn) - Total(prev.gsn)
            = CASE last.op = "TopUp" -> last.amount
                [] last.op = "ClaimFees" -> 0 - ClaimEarned
                [] OTHER -> 0

\* C28: the audit map and the nonces agree: (c, n) has an audit entry
\* exactly when n is below c's next nonce, which is the number of c's
\* successful submissions; a consumer with a nonce entry has a balance
\* entry; and no successful SubmitTransaction runs a pair that already has
\* an audit entry.
C28_AuditMatchesNonces ==
    /\ data.holds =>
          /\ \A c \in Address :
                /\ get_next_nonce(data.gsn, c) = relayed[c]
                /\ \A n \in 0..(MaxNonce + 1) :
                      TxKey(c, n) \in DOMAIN data.gsn.transaction_executor
                          <=> n < get_next_nonce(data.gsn, c)
          /\ DOMAIN data.gsn.transaction_executor
                 \subseteq {TxKey(c, n) : c \in Address, n \in 0..MaxNonce}
          /\ DOMAIN data.gsn.consumer_nonces \subseteq DOMAIN data.gsn.consumer
    /\ SubmitSucceeded =>
          TxKey(last.sender, last.nonce) \notin DOMAIN prev.gsn.transaction_executor

C28_Witness ==
    /\ SubmitSucceeded
    /\ last.nonce = 1
    /\ TxKey(last.sender, 0) \in DOMAIN data.gsn.transaction_executor
    /\ TxKey(last.sender, 1) \in DOMAIN data.gsn.transaction_executor
    /\ TxKey(last.sender, 2) \notin DOMAIN data.gsn.transaction_executor
    /\ data.gsn.consumer_nonces[last.sender] = 2

\* The last RemoveAllowedToken came from the signing authority of a record
\* that decodes.
RemoveByAuthority ==
    /\ last.op = "RemoveAllowedToken" /\ last.enough /\ last.signer
    /\ prev.holds
    /\ is_authority(prev.gsn, last.authority)

\* C29: a RemoveAllowedToken(t) by the authority succeeds; afterwards t is
\* not in the list, t is refused exactly when the list is still non-empty,
\* and with the list empty every token is allowed; removing a token that is
\* not in the list leaves the list as it was.
C29_RemovedTokenRefusedUnlessListEmpty ==
    RemoveByAuthority =>
        LET before == prev.gsn.governance[1].allowed_tokens
            after == data.gsn.governance[1].allowed_tokens
        IN /\ last.result = "Ok"
           /\ data.holds
           /\ after = MapRemove(before, last.mint)
           /\ ~is_token_allowed(data.gsn, last.mint) <=> DOMAIN after # {}
           /\ DOMAIN after = {} => \A t \in Mint : is_token_allowed(data.gsn, t)
           /\ last.mint \notin DOMAIN before => data = prev

C29_Witness ==
    /\ RemoveByAuthority
    /\ last.result = "Ok"
    /\ DOMAIN prev.gsn.governance[1].allowed_tokens = Mint
    /\ DOMAIN data.gsn.governance[1].allowed_tokens = Mint \ {last.mint}
    /\ ~is_token_allowed(data.gsn, last.mint)

\* C27: after one Initialize, what successful ClaimFees have paid out plus
\* what the executors are still owed never exceeds what successful TopUps
\* have credited.
C27_LedgerSolvent ==
    data.holds =>
        claimed + MapSum(data.gsn.executor, DOMAIN data.gsn.executor) <= funded

====
